---- MODULE Spec2Model ----
(***************************************************************************)
(* Model of src/server.js: the realtime group-message relay (WebSocket      *)
(* handlers, POST /api/messages, saveMessage / getMessages over            *)
(* messages.json), the OTP flow (send-otp, verify-otp, saveOtps / loadOtps *)
(* over otp_store.json) and the group catalog (POST and GET /api/groups    *)
(* over groups.json).  The file holds two versions of the server; the one  *)
(* modelled is the first (lines 1-330), which has the attempt counter and  *)
(* the object-keyed OTP file.                                              *)
(*                                                                         *)
(* Node runs the handlers on one event loop: the code between two awaits   *)
(* is one atomic step, and an awaited fs / mail call completes in a later  *)
(* step, so other handlers interleave at the awaits.                       *)
(***************************************************************************)
EXTENDS Integers, Sequences, FiniteSets, TLC

\* ---------------------------------------------------------------- bounds
MaxTasks == 3          \* publish requests (each gets a fresh uuid)
MaxFanTasks == 1       \* publish requests of the runs with two connections
MaxTicks == 2          \* clock steps of a run
MaxPending == 1        \* OTP handlers suspended at an await at one time
MaxNotFound == 1       \* verify-otp calls recorded per issuance once its entry is gone
MaxOverlap == 2        \* send-otp handlers suspended at once in the runs with two identities
MaxCreates == 2        \* POST /api/groups requests of a run
MaxCalls == 4          \* verify-otp calls per issuance in the runs with restarts

Conns  == {"k1", "k2"} \* websocket connections (clientId)
Undefined == "undefined"   \* a property the JSON body does not carry
Groups == {"G", "H"}
GroupInputs == Groups   \* message.group as the caller sends it
RawGroups == {"G", "", Undefined}   \* the group of a body or frame nobody validated
NoEntry == "noentry"   \* clients.get(clientId) === undefined

Emails == {"a@x.com", "b@x.com"}
Codes == {"111111", "222222"}        \* values of generateOTP()
OTP_TTL == 300000                    \* expiresAt: Date.now() + 300000
MaxAttempts == 3                     \* stored.attempts >= 3
TickMs == OTP_TTL                    \* one clock step, in ms
NoOtp == [otp |-> "", expiresAt |-> 0, attempts |-> 0]   \* otpStorage[email] === undefined
NoResp == [op |-> "none", email |-> "", result |-> "", http |-> 0, writeFailed |-> FALSE]
NoHist == [otp |-> "", at |-> 0, prev |-> "", calls |-> <<>>]
NoBad == [kind |-> "none", at |-> 0, group |-> NoEntry]   \* no frame dropped yet

\* ---------------------------------------------------------------- state
VARIABLES
  messagesFile,  \* content of MESSAGES_FILE: the parsed JSON array
  clients,       \* the clients Map: clientId -> group of its entry, or NoEntry
  readyState,    \* ws.readyState of each connection ("NONE" before accept)
  inbox,         \* what ws.send has pushed to each connection's peer (fan-out)
  ackSent,       \* connections that were sent the {type:'connection'} frame
  req,           \* publish requests in the order they arrived: position, local
                 \* variables, response; the n-th request assigns message id n
  otpStorage,    \* the in-memory otpStorage object: email -> entry, or NoOtp
  otpFile,       \* content of OTP_FILE: the parsed JSON object
  now,           \* Date.now()
  pending,       \* OTP handlers suspended at an await, in the order they started
  resp,          \* the HTTP response the last step sent (NoResp: it sent none)
  hist,          \* per email: the latest issue and the verify calls made since
  broken,        \* connections whose socket fails every write while still OPEN
  undelivered,   \* per connection: ids of the messages whose ws.send failed
  closedIn,      \* per connection: the publishes to its group that were between
                 \* start and completion when its 'close' event was handled
  bad,           \* per connection: the last frame its handler dropped
  lastSub,       \* per connection: the group of the last subscribe frame it sent
                 \* since it was accepted (NoEntry: none, or it has closed)
  groupsFile,    \* content of GROUPS_FILE: the parsed JSON array
  greq           \* POST /api/groups requests in the order they arrived

msgVars == <<messagesFile, clients, readyState, inbox, ackSent, req>>

otpVars == <<otpStorage, otpFile, now, pending, resp, hist>>

wsVars == <<broken, undelivered, closedIn, bad, lastSub>>

grpVars == <<groupsFile, greq>>

vars == <<messagesFile, clients, readyState, inbox, ackSent, req,
          otpStorage, otpFile, now, pending, resp, hist,
          broken, undelivered, closedIn, bad, lastSub, groupsFile, greq>>

\* the publish requests received so far
Tasks == DOMAIN req

InitMsg ==
  /\ messagesFile = <<>>
  /\ clients = [c \in Conns |-> NoEntry]
  /\ readyState = [c \in Conns |-> "NONE"]
  /\ inbox = [c \in Conns |-> <<>>]
  /\ ackSent = {}
  /\ req = <<>>

\* the sockets work, no close event and no dropped frame yet
InitWs ==
  /\ broken = {}
  /\ undelivered = [c \in Conns |-> {}]
  /\ closedIn = [c \in Conns |-> {}]
  /\ bad = [c \in Conns |-> NoBad]
  /\ lastSub = [c \in Conns |-> NoEntry]

\* initializeStorage: GROUPS_FILE holds '[]'
InitGrp ==
  /\ groupsFile = <<>>
  /\ greq = <<>>

\* requests whose handler has finished (successfully or not)
Completed == {t \in Tasks : req[t].pc \in {"done", "failed"}}

\* ------------------------------------------------------- websocket side
\* wss.on('connection'): allocate clientId, send the connection frame
Connection(c) ==
  /\ readyState[c] = "NONE"
  /\ (c = "k2" => readyState["k1"] # "NONE")   \* ids are fresh: k2 names the second accept
  /\ readyState' = [readyState EXCEPT ![c] = "OPEN"]
  /\ ackSent' = ackSent \cup {c}
  /\ UNCHANGED <<messagesFile, clients, inbox, req>>
  /\ UNCHANGED <<otpVars, wsVars, grpVars>>

\* a subscribe that keeps the entry a connection already has
RegisterOnce(reg, c, g) == IF reg[c] = NoEntry THEN [reg EXCEPT ![c] = g] ELSE reg

\* clients.set(clientId, {ws, group, walletAddress, senderId})
Register(reg, c, g) == [reg EXCEPT ![c] = g]

\* ws.on('message') with type 'subscribe': clients.set(clientId, {ws, group, ...})
Subscribe(c, g) ==
  /\ readyState[c] = "OPEN"
  /\ clients' = Register(clients, c, g)
  /\ lastSub' = [lastSub EXCEPT ![c] = g]
  /\ UNCHANGED <<messagesFile, readyState, inbox, ackSent, req>>
  /\ UNCHANGED <<broken, undelivered, closedIn, bad>>
  /\ UNCHANGED <<otpVars, grpVars>>

\* the transport starts closing: readyState leaves OPEN before 'close' is emitted
Closing(c) ==
  /\ readyState[c] = "OPEN"
  /\ readyState' = [readyState EXCEPT ![c] = "CLOSING"]
  /\ UNCHANGED <<messagesFile, clients, inbox, ackSent, req>>
  /\ UNCHANGED <<otpVars, wsVars, grpVars>>

\* the socket of an open connection fails: from now on a write to it is lost and
\* reported by its 'error' event (ws.send itself returns normally)
Break(c) ==
  /\ readyState[c] = "OPEN"
  /\ c \notin broken
  /\ broken' = broken \cup {c}
  /\ UNCHANGED <<undelivered, closedIn, bad, lastSub>>
  /\ UNCHANGED <<msgVars, otpVars, grpVars>>

\* the publishes to the group of c's entry that are inside saveMessage
InFlightFor(c) ==
  {t \in Tasks : req[t].pc \in {"reading", "writing"} /\ clients[c] = req[t].msg.group}

\* a close handler that leaves the entry in the Map
KeepRegistered(reg, c) == reg

\* clients.delete(clientId)
Unregister(reg, c) == [reg EXCEPT ![c] = NoEntry]

\* ws.on('close'): clients.delete(clientId)
Close(c) ==
  /\ readyState[c] \in {"OPEN", "CLOSING"}
  /\ readyState' = [readyState EXCEPT ![c] = "CLOSED"]
  /\ clients' = Unregister(clients, c)
  /\ broken' = broken \ {c}
  /\ closedIn' = [closedIn EXCEPT ![c] = InFlightFor(c)]
  /\ lastSub' = [lastSub EXCEPT ![c] = NoEntry]
  /\ UNCHANGED <<messagesFile, inbox, ackSent, req>>
  /\ UNCHANGED <<undelivered, bad>>
  /\ UNCHANGED <<otpVars, grpVars>>

\* frames the handler does nothing with: data JSON.parse throws on, the JSON
\* text null (reading message.type throws), and a type that no branch tests for
BadFrames == {"unparsable", "null", "unknown type"}

\* a catch block that also removes the sender from the registry
DropConnection(reg, c) == Unregister(reg, c)

\* the registry after the catch block (console.error only) or after no branch ran
DropFrame(reg, c) == reg

\* ws.on('message') with a frame of BadFrames: the throw is caught and logged, or
\* neither if-branch is taken, and the handler returns
BadFrame(c, kind) ==
  /\ readyState[c] = "OPEN"
  /\ clients' = DropFrame(clients, c)
  /\ bad' = [bad EXCEPT ![c] = [kind |-> kind, at |-> Len(req), group |-> clients[c]]]
  /\ UNCHANGED <<messagesFile, readyState, inbox, ackSent, req>>
  /\ UNCHANGED <<broken, undelivered, closedIn, lastSub>>
  /\ UNCHANGED <<otpVars, grpVars>>

\* ------------------------------------------------------------- publish
\* ws.on('message') with type 'message', up to the first await inside saveMessage
WsMessage(c, g) ==
  /\ readyState[c] = "OPEN"
  /\ Len(req) < MaxTasks
  /\ req' = Append(req,
               [pc |-> "reading", via |-> "ws",
                msg |-> [id |-> Len(req) + 1, group |-> g, status |-> "delivered"],
                messages |-> <<>>, status |-> "none", after |-> Completed])
  /\ UNCHANGED <<messagesFile, clients, readyState, inbox, ackSent>>
  /\ UNCHANGED <<otpVars, wsVars, grpVars>>

\* POST /api/messages, up to the first await inside saveMessage
PostMessage(g) ==
  /\ Len(req) < MaxTasks
  /\ req' = Append(req,
               [pc |-> "reading", via |-> "rest",
                msg |-> [id |-> Len(req) + 1, group |-> g, status |-> Undefined],
                messages |-> <<>>, status |-> "none", after |-> Completed])
  /\ UNCHANGED <<messagesFile, clients, readyState, inbox, ackSent>>
  /\ UNCHANGED <<otpVars, wsVars, grpVars>>

\* what the catch block of the caller does with an error thrown by saveMessage
Caught(via) == IF via = "rest" THEN "500" ELSE "logged"

\* saveMessage: fs.readFile resolves; messages.push(message); fs.writeFile starts
ReadDone(t) ==
  /\ req[t].pc = "reading"
  /\ req' = [req EXCEPT ![t].pc = "writing",
                        ![t].messages = Append(messagesFile, req[t].msg)]
  /\ UNCHANGED <<messagesFile, clients, readyState, inbox, ackSent>>
  /\ UNCHANGED <<otpVars, wsVars, grpVars>>

\* saveMessage: fs.readFile rejects; saveMessage rethrows to the handler's catch
ReadFail(t) ==
  /\ req[t].pc = "reading"
  /\ req' = [req EXCEPT ![t].pc = "failed", ![t].messages = <<>>,
                        ![t].status = Caught(req[t].via)]
  /\ UNCHANGED <<messagesFile, clients, readyState, inbox, ackSent>>
  /\ UNCHANGED <<otpVars, wsVars, grpVars>>

\* Recipient without the group test: the loop would send to every open entry
RecipientAnyGroup(c, m) ==
  /\ clients[c] # NoEntry
  /\ readyState[c] = "OPEN"

\* the condition of the fan-out loop
Recipient(c, m) ==
  /\ clients[c] # NoEntry
  /\ clients[c] = m.group
  /\ readyState[c] = "OPEN"

\* a fan-out loop that a failing send ends: the entries the Map iterates after
\* the failing one (k1 is iterated before k2) are not sent to
FanOutAbort(m) ==
  [c \in Conns |->
     IF /\ Recipient(c, m)
        /\ ~\E d \in Conns : Recipient(d, m) /\ d \in broken /\ (d = c \/ d = "k1")
     THEN Append(inbox[c], m) ELSE inbox[c]]

\* clients.forEach(client => { if (...) client.ws.send(JSON.stringify(message)) }):
\* what reaches each peer; a send on a broken socket reaches nobody
FanOut(m) ==
  [c \in Conns |->
     IF Recipient(c, m) /\ c \notin broken THEN Append(inbox[c], m) ELSE inbox[c]]

\* the sends of the loop that failed, as the 'error' events report them
SendFailures(m) ==
  [c \in Conns |->
     IF Recipient(c, m) /\ c \in broken THEN undelivered[c] \cup {m.id}
     ELSE undelivered[c]]

\* saveMessage: fs.writeFile resolves; the handler fans out and answers
WriteDone(t) ==
  /\ req[t].pc = "writing"
  /\ messagesFile' = req[t].messages
  /\ inbox' = FanOut(req[t].msg)
  /\ undelivered' = SendFailures(req[t].msg)
  /\ req' = [req EXCEPT ![t].pc = "done", ![t].messages = <<>>,
                        ![t].status = IF req[t].via = "rest" THEN "201" ELSE "none"]
  /\ UNCHANGED <<clients, readyState, ackSent>>
  /\ UNCHANGED <<broken, closedIn, bad, lastSub>>
  /\ UNCHANGED <<otpVars, grpVars>>

\* saveMessage: fs.writeFile rejects; saveMessage rethrows to the handler's catch
WriteFail(t) ==
  /\ req[t].pc = "writing"
  /\ req' = [req EXCEPT ![t].pc = "failed", ![t].messages = <<>>,
                        ![t].status = Caught(req[t].via)]
  /\ UNCHANGED <<messagesFile, clients, readyState, inbox, ackSent>>
  /\ UNCHANGED <<otpVars, wsVars, grpVars>>

\* getMessages(group): the messages of the file whose group matches, in file order
getMessages(group) == SelectSeq(messagesFile, LAMBDA m : m.group = group)

\* ================================================================== OTP
\* The request bodies are well formed (an email that passes the pattern test, a
\* non-empty otp): the handlers answer 400 to the others before they read or
\* write any state.
InitOtp ==
  /\ otpStorage = [e \in Emails |-> NoOtp]
  /\ otpFile = [e \in Emails |-> NoOtp]
  /\ now = 0
  /\ pending = <<>>
  /\ resp = NoResp
  /\ hist = [e \in Emails |-> NoHist]

Init == InitMsg /\ InitOtp /\ InitWs /\ InitGrp

\* the sequence without its i-th element
Without(seq, i) == SubSeq(seq, 1, i - 1) \o SubSeq(seq, i + 1, Len(seq))

\* Date.now() advances
Tick ==
  /\ now < MaxTicks * TickMs
  /\ now' = now + TickMs
  /\ resp' = NoResp
  /\ UNCHANGED <<otpStorage, otpFile, pending, hist>>
  /\ UNCHANGED <<msgVars, wsVars, grpVars>>

\* the entry send-otp stores
NewEntry(c) == [otp |-> c, expiresAt |-> now + OTP_TTL, attempts |-> 0]

\* a send-otp that keeps an entry that is already there
KeepOldEntry(e, c) ==
  IF otpStorage[e] = NoOtp THEN [otpStorage EXCEPT ![e] = NewEntry(c)] ELSE otpStorage

\* otpStorage[email] = { otp, expiresAt, attempts: 0 }
StoreEntry(e, c) == [otpStorage EXCEPT ![e] = NewEntry(c)]

\* a handler suspended in saveOtps: the text being written is the store as it was
\* when saveOtps was called
Saving(op, e, result, store) ==
  [op |-> op, email |-> e, result |-> result, snap |-> store,
   pc |-> "saving", writeFailed |-> FALSE]

\* the calls of a history that found no entry
NotFounds(calls) == Cardinality({i \in DOMAIN calls : calls[i].result = "NOT_FOUND"})

\* the bookkeeping of one verify call in the history of its email
Record(e, c, result) ==
  IF hist[e].otp = "" THEN hist
  ELSE [hist EXCEPT ![e].calls = Append(@, [otp |-> c, at |-> now, result |-> result])]

\* POST /api/auth/send-otp up to the await inside saveOtps; c is generateOTP()
IssueOtp(e, c) ==
  /\ otpStorage' = StoreEntry(e, c)
  /\ pending' = Append(pending, Saving("issue", e, "SENT", otpStorage'))
  /\ hist' = [hist EXCEPT ![e] = [otp |-> c, at |-> now,
                                   prev |-> otpStorage[e].otp, calls |-> <<>>]]
  /\ resp' = NoResp
  /\ UNCHANGED <<otpFile, now>>
  /\ UNCHANGED <<msgVars, wsVars, grpVars>>

\* send-otp while fewer than MaxPending OTP handlers are suspended
SendOtp(e, c) ==
  /\ Len(pending) < MaxPending
  /\ IssueOtp(e, c)

\* Date.now() > stored.expiresAt, with >= in place of >
ExpiredAtDeadline(stored) == now >= stored.expiresAt

\* Date.now() > stored.expiresAt
Expired(stored) == now > stored.expiresAt

\* the attempt limit tested after the increment, with > in place of >=
OverLimit(n) == n > MaxAttempts

\* stored.attempts >= 3
TooMany(n) == n >= MaxAttempts

\* a delete that leaves the entry in place
KeepEntry(e) == otpStorage

\* delete otpStorage[email]
Delete(e) == [otpStorage EXCEPT ![e] = NoOtp]

\* POST /api/auth/verify-otp: no entry for the email, 400 'OTP not found'
VerifyOtpNotFound(e, c) ==
  /\ NotFounds(hist[e].calls) < MaxNotFound
  /\ otpStorage[e] = NoOtp
  /\ resp' = [op |-> "verify", email |-> e, result |-> "NOT_FOUND",
              http |-> 400, writeFailed |-> FALSE]
  /\ hist' = Record(e, c, "NOT_FOUND")
  /\ UNCHANGED <<otpStorage, otpFile, now, pending>>
  /\ UNCHANGED <<msgVars, wsVars, grpVars>>

\* POST /api/auth/verify-otp: the entry has expired; delete it and await saveOtps
VerifyOtpExpired(e, c) ==
  /\ Len(pending) < MaxPending
  /\ otpStorage[e] # NoOtp
  /\ Expired(otpStorage[e])
  /\ otpStorage' = Delete(e)
  /\ pending' = Append(pending, Saving("verify", e, "EXPIRED", otpStorage'))
  /\ hist' = Record(e, c, "EXPIRED")
  /\ resp' = NoResp
  /\ UNCHANGED <<otpFile, now>>
  /\ UNCHANGED <<msgVars, wsVars, grpVars>>

\* POST /api/auth/verify-otp: wrong code below the limit; the counter is
\* incremented in memory and 400 'Invalid OTP' is sent at once (no saveOtps)
VerifyOtpInvalid(e, c) ==
  /\ otpStorage[e] # NoOtp
  /\ ~Expired(otpStorage[e])
  /\ otpStorage[e].otp # c
  /\ ~TooMany(otpStorage[e].attempts + 1)
  /\ otpStorage' = [otpStorage EXCEPT ![e].attempts = @ + 1]
  /\ resp' = [op |-> "verify", email |-> e, result |-> "INVALID",
              http |-> 400, writeFailed |-> FALSE]
  /\ hist' = Record(e, c, "INVALID")
  /\ UNCHANGED <<otpFile, now, pending>>
  /\ UNCHANGED <<msgVars, wsVars, grpVars>>

\* POST /api/auth/verify-otp: wrong code reaching the limit; delete, await saveOtps
VerifyOtpLocked(e, c) ==
  /\ Len(pending) < MaxPending
  /\ otpStorage[e] # NoOtp
  /\ ~Expired(otpStorage[e])
  /\ otpStorage[e].otp # c
  /\ TooMany(otpStorage[e].attempts + 1)
  /\ otpStorage' = Delete(e)
  /\ pending' = Append(pending, Saving("verify", e, "LOCKED", otpStorage'))
  /\ hist' = Record(e, c, "LOCKED")
  /\ resp' = NoResp
  /\ UNCHANGED <<otpFile, now>>
  /\ UNCHANGED <<msgVars, wsVars, grpVars>>

\* POST /api/auth/verify-otp: the code matches; delete, await saveOtps
VerifyOtpMatch(e, c) ==
  /\ Len(pending) < MaxPending
  /\ otpStorage[e] # NoOtp
  /\ ~Expired(otpStorage[e])
  /\ otpStorage[e].otp = c
  /\ otpStorage' = Delete(e)
  /\ pending' = Append(pending, Saving("verify", e, "VERIFIED", otpStorage'))
  /\ hist' = Record(e, c, "VERIFIED")
  /\ resp' = NoResp
  /\ UNCHANGED <<otpFile, now>>
  /\ UNCHANGED <<msgVars, wsVars, grpVars>>

\* the status code of a verify-otp result
HttpOf(result) == IF result = "VERIFIED" THEN 200 ELSE 400

\* what the handler does once saveOtps has returned (saveOtps never throws):
\* send-otp goes on to await sendMail, verify-otp sends its response
AfterSave(i, failed) ==
  LET p == pending[i] IN
  IF p.op = "issue"
  THEN /\ pending' = [pending EXCEPT ![i].pc = "mailing", ![i].writeFailed = failed,
                                     ![i].snap = [e \in Emails |-> NoOtp]]
       /\ resp' = NoResp
  ELSE /\ pending' = Without(pending, i)
       /\ resp' = [op |-> "verify", email |-> p.email, result |-> p.result,
                   http |-> HttpOf(p.result), writeFailed |-> failed]

\* saveOtps: fs.writeFile resolves
SaveDone(i) ==
  /\ pending[i].pc = "saving"
  /\ otpFile' = pending[i].snap
  /\ AfterSave(i, FALSE)
  /\ UNCHANGED <<otpStorage, now, hist>>
  /\ UNCHANGED <<msgVars, wsVars, grpVars>>

\* saveOtps: fs.writeFile rejects; the catch logs the error and returns
SaveFail(i) ==
  /\ pending[i].pc = "saving"
  /\ AfterSave(i, TRUE)
  /\ UNCHANGED <<otpStorage, otpFile, now, hist>>
  /\ UNCHANGED <<msgVars, wsVars, grpVars>>

\* send-otp: transporter.sendMail resolves; 200 'OTP sent'
MailDone(i) ==
  /\ pending[i].pc = "mailing"
  /\ pending' = Without(pending, i)
  /\ resp' = [op |-> "issue", email |-> pending[i].email, result |-> "SENT",
              http |-> 200, writeFailed |-> pending[i].writeFailed]
  /\ UNCHANGED <<otpStorage, otpFile, now, hist>>
  /\ UNCHANGED <<msgVars, wsVars, grpVars>>

\* send-otp: transporter.sendMail rejects; the catch answers 500
MailFail(i) ==
  /\ pending[i].pc = "mailing"
  /\ pending' = Without(pending, i)
  /\ resp' = [op |-> "issue", email |-> pending[i].email, result |-> "SEND_FAILED",
              http |-> 500, writeFailed |-> pending[i].writeFailed]
  /\ UNCHANGED <<otpStorage, otpFile, now, hist>>
  /\ UNCHANGED <<msgVars, wsVars, grpVars>>

\* The process ends and startServer runs again, at a moment when no handler is
\* suspended at an await: loadOtps replaces otpStorage by the parsed content of
\* OTP_FILE (the read succeeding); the clients Map of the new process is empty
\* and the sockets of the old one are closed.
Restart ==
  /\ pending = <<>>
  /\ \A t \in Tasks : req[t].pc \notin {"reading", "writing"}
  /\ \A t \in DOMAIN greq : greq[t].pc \notin {"reading", "writing"}
  /\ otpStorage' = otpFile
  /\ resp' = NoResp
  /\ clients' = [c \in Conns |-> NoEntry]
  /\ readyState' = [c \in Conns |-> IF readyState[c] = "NONE" THEN "NONE" ELSE "CLOSED"]
  /\ broken' = {}
  /\ lastSub' = [c \in Conns |-> NoEntry]
  /\ UNCHANGED <<messagesFile, inbox, ackSent, req>>
  /\ UNCHANGED <<otpFile, now, pending, hist>>
  /\ UNCHANGED <<undelivered, closedIn, bad>>
  /\ UNCHANGED grpVars

\* the awaits of the OTP handlers completing, and the clock
OtpSteps ==
  \/ Tick
  \/ \E i \in 1..MaxPending : i <= Len(pending) /\ SaveDone(i)
  \/ \E i \in 1..MaxPending : i <= Len(pending) /\ MailDone(i)
  \/ \E i \in 1..MaxPending : i <= Len(pending) /\ MailFail(i)

\* verify-otp for one email
VerifyOtp(e) ==
  \/ \E c \in Codes : VerifyOtpNotFound(e, c)
  \/ \E c \in Codes : VerifyOtpExpired(e, c)
  \/ \E c \in Codes : VerifyOtpInvalid(e, c)
  \/ \E c \in Codes : VerifyOtpLocked(e, c)
  \/ \E c \in Codes : VerifyOtpMatch(e, c)

\* =============================================================== groups
\* req.body.name as JSON gives it: absent, a number, or a string (its characters)
Absent == [type |-> "undefined", num |-> 0, chars |-> <<>>]

Num(n) == [type |-> "number", num |-> n, chars |-> <<>>]

Str(chars) == [type |-> "string", num |-> 0, chars |-> chars]

NameInputs ==
  {Absent, Num(0), Num(42), Str(<<>>), Str(<<" ", " ">>), Str(<<"a">>),
   Str(<<" ", "a", " ">>), Str(<<"a", " ", "b">>)}

\* String.prototype.trim: the characters without the leading and trailing blanks
RECURSIVE TrimStart(_)
TrimStart(chars) ==
  IF chars # <<>> /\ Head(chars) = " " THEN TrimStart(Tail(chars)) ELSE chars

RECURSIVE TrimEnd(_)
TrimEnd(chars) ==
  IF chars # <<>> /\ chars[Len(chars)] = " "
  THEN TrimEnd(SubSeq(chars, 1, Len(chars) - 1)) ELSE chars

\* name.trim()
Trim(chars) == TrimEnd(TrimStart(chars))

\* !name
Falsy(name) ==
  \/ name.type = "undefined"
  \/ name.type = "number" /\ name.num = 0
  \/ name.type = "string" /\ name.chars = <<>>

\* !name || typeof name !== 'string' || name.trim() === ''
InvalidName(name) ==
  \/ Falsy(name)
  \/ name.type # "string"
  \/ Trim(name.chars) = <<>>

NoGroup == [id |-> 0, name |-> <<>>]

\* POST /api/groups: 400 for an invalid name, else up to the await of fs.readFile
CreateGroup(name) ==
  /\ Len(greq) < MaxCreates
  /\ greq' = Append(greq,
                [pc |-> IF InvalidName(name) THEN "rejected" ELSE "reading",
                 name |-> name, groups |-> <<>>, newGroup |-> NoGroup,
                 status |-> IF InvalidName(name) THEN "400" ELSE "none"])
  /\ UNCHANGED groupsFile
  /\ UNCHANGED <<msgVars, otpVars, wsVars>>

\* fs.readFile resolves: newGroup = {id: uuidv4(), name: name.trim(), createdAt};
\* groups.push(newGroup); fs.writeFile starts (the t-th request draws id t)
GroupReadDone(t) ==
  /\ greq[t].pc = "reading"
  /\ LET newGroup == [id |-> t, name |-> Trim(greq[t].name.chars)] IN
       greq' = [greq EXCEPT ![t].pc = "writing", ![t].newGroup = newGroup,
                            ![t].groups = Append(groupsFile, newGroup)]
  /\ UNCHANGED groupsFile
  /\ UNCHANGED <<msgVars, otpVars, wsVars>>

\* fs.readFile rejects: the catch answers 500
GroupReadFail(t) ==
  /\ greq[t].pc = "reading"
  /\ greq' = [greq EXCEPT ![t].pc = "failed", ![t].status = "500"]
  /\ UNCHANGED groupsFile
  /\ UNCHANGED <<msgVars, otpVars, wsVars>>

\* fs.writeFile resolves: res.status(201).json(newGroup)
GroupWriteDone(t) ==
  /\ greq[t].pc = "writing"
  /\ groupsFile' = greq[t].groups
  /\ greq' = [greq EXCEPT ![t].pc = "done", ![t].groups = <<>>, ![t].status = "201"]
  /\ UNCHANGED <<msgVars, otpVars, wsVars>>

\* fs.writeFile rejects: the catch answers 500
GroupWriteFail(t) ==
  /\ greq[t].pc = "writing"
  /\ greq' = [greq EXCEPT ![t].pc = "failed", ![t].groups = <<>>, ![t].status = "500"]
  /\ UNCHANGED groupsFile
  /\ UNCHANGED <<msgVars, otpVars, wsVars>>

\* GET /api/groups: the parsed content of GROUPS_FILE
ListGroups == groupsFile

\* ======================================================= specifications
\* the steps every run can take once a publish has started, and the socket events
Handlers ==
  \/ \E c \in Conns, g \in GroupInputs : Subscribe(c, g)
  \/ \E c \in Conns : Closing(c)
  \/ \E c \in Conns : Close(c)
  \/ \E t \in 1..MaxTasks : t \in Tasks /\ ReadDone(t)
  \/ \E t \in 1..MaxTasks : t \in Tasks /\ ReadFail(t)
  \/ \E t \in 1..MaxTasks : t \in Tasks /\ WriteDone(t)
  \/ \E t \in 1..MaxTasks : t \in Tasks /\ WriteFail(t)

\* runs with one connection and MaxTasks publishes (the store under concurrency)
NextLog ==
  \/ Connection("k1")
  \/ \E c \in Conns, g \in GroupInputs : WsMessage(c, g)
  \/ \E g \in GroupInputs : PostMessage(g)
  \/ Handlers

SpecLog == Init /\ [][NextLog]_vars

\* runs with two connections and MaxFanTasks publishes (the fan-out)
NextFan ==
  \/ \E c \in Conns : Connection(c)
  \/ \E c \in Conns, g \in GroupInputs : Len(req) < MaxFanTasks /\ WsMessage(c, g)
  \/ \E g \in GroupInputs : Len(req) < MaxFanTasks /\ PostMessage(g)
  \/ Handlers

SpecFan == Init /\ [][NextFan]_vars

\* the completions of the awaits inside saveMessage
SaveSteps ==
  \/ \E t \in 1..MaxTasks : t \in Tasks /\ ReadDone(t)
  \/ \E t \in 1..MaxTasks : t \in Tasks /\ ReadFail(t)
  \/ \E t \in 1..MaxTasks : t \in Tasks /\ WriteDone(t)
  \/ \E t \in 1..MaxTasks : t \in Tasks /\ WriteFail(t)

\* runs in which one connection subscribes to G and stays open and subscribed,
\* with MaxTasks publishes
NextOrder ==
  \/ Connection("k1")
  \/ Subscribe("k1", "G")
  \/ \E g \in GroupInputs : WsMessage("k1", g)
  \/ \E g \in GroupInputs : PostMessage(g)
  \/ SaveSteps

SpecOrder == Init /\ [][NextOrder]_vars

\* runs in which the group of a frame or body may be missing or empty, with one
\* connection and a file system that works
NextInput ==
  \/ Connection("k1")
  \/ \E g \in RawGroups : Subscribe("k1", g)
  \/ \E g \in RawGroups : WsMessage("k1", g)
  \/ \E g \in RawGroups : PostMessage(g)
  \/ \E t \in 1..MaxTasks : t \in Tasks /\ ReadDone(t)
  \/ \E t \in 1..MaxTasks : t \in Tasks /\ WriteDone(t)

SpecInput == Init /\ [][NextInput]_vars

\* runs of MaxCreates POST /api/groups requests
NextGroups ==
  \/ \E name \in NameInputs : CreateGroup(name)
  \/ \E t \in 1..MaxCreates : t \in DOMAIN greq /\ GroupReadDone(t)
  \/ \E t \in 1..MaxCreates : t \in DOMAIN greq /\ GroupReadFail(t)
  \/ \E t \in 1..MaxCreates : t \in DOMAIN greq /\ GroupWriteDone(t)
  \/ \E t \in 1..MaxCreates : t \in DOMAIN greq /\ GroupWriteFail(t)

SpecGroups == Init /\ [][NextGroups]_vars

\* runs of one connection that also sends frames the handler drops, with
\* MaxFanTasks publishes
NextFrame ==
  \/ Connection("k1")
  \/ \E g \in GroupInputs : Subscribe("k1", g)
  \/ \E kind \in BadFrames : BadFrame("k1", kind)
  \/ Closing("k1")
  \/ Close("k1")
  \/ \E g \in GroupInputs : Len(req) < MaxFanTasks /\ WsMessage("k1", g)
  \/ \E g \in GroupInputs : Len(req) < MaxFanTasks /\ PostMessage(g)
  \/ SaveSteps

SpecFrame == Init /\ [][NextFrame]_vars

\* the publishes that are inside saveMessage
InFlight == {t \in Tasks : req[t].pc \in {"reading", "writing"}}

\* runs of one connection that subscribes again and again, with MaxTasks
\* publishes, each starting when no other is inside saveMessage (SpecFan has the
\* fan-out of overlapping publishes)
NextSub ==
  \/ Connection("k1")
  \/ \E g \in GroupInputs : Subscribe("k1", g)
  \/ Closing("k1")
  \/ Close("k1")
  \/ \E g \in GroupInputs : InFlight = {} /\ WsMessage("k1", g)
  \/ \E g \in GroupInputs : InFlight = {} /\ PostMessage(g)
  \/ SaveSteps

SpecSub == Init /\ [][NextSub]_vars

\* the runs with two connections in which sockets can fail
NextSendFail ==
  \/ NextFan
  \/ \E c \in Conns : Break(c)

SpecSendFail == Init /\ [][NextSendFail]_vars

\* runs of the OTP flow of one identity
NextOtp ==
  \/ \E c \in Codes : SendOtp("a@x.com", c)
  \/ VerifyOtp("a@x.com")
  \/ OtpSteps
  \/ \E i \in 1..MaxPending : i <= Len(pending) /\ SaveFail(i)

SpecOtp == Init /\ [][NextOtp]_vars

\* the same runs with a file system whose writes all succeed
NextOtpDiskOk ==
  \/ \E c \in Codes : SendOtp("a@x.com", c)
  \/ VerifyOtp("a@x.com")
  \/ OtpSteps

SpecOtpDiskOk == Init /\ [][NextOtpDiskOk]_vars

\* the runs of one identity with a file system whose writes all succeed and a
\* process that restarts, with MaxCalls verify-otp calls per issuance
NextOtpRestart ==
  \/ \E c \in Codes : SendOtp("a@x.com", c)
  \/ Len(hist["a@x.com"].calls) < MaxCalls /\ VerifyOtp("a@x.com")
  \/ OtpSteps
  \/ Restart

SpecOtpRestart == Init /\ [][NextOtpRestart]_vars

\* the code generateOTP() returns to the send-otp of each identity in the runs
\* with two identities
CodeFor(e) == IF e = "a@x.com" THEN "111111" ELSE "222222"

\* runs of send-otp for two identities with up to MaxOverlap handlers suspended
\* at once, every file write succeeding; the writes complete in any order
\* (fs.writeFile gives no order between two calls on the same file)
NextOtpPair ==
  \/ \E e \in Emails : Len(pending) < MaxOverlap /\ IssueOtp(e, CodeFor(e))
  \/ Tick
  \/ \E i \in 1..MaxOverlap : i <= Len(pending) /\ SaveDone(i)
  \/ \E i \in 1..MaxOverlap : i <= Len(pending) /\ MailDone(i)
  \/ \E i \in 1..MaxOverlap : i <= Len(pending) /\ MailFail(i)

SpecOtpPair == Init /\ [][NextOtpPair]_vars

\* ======================================================= message claims
\* how many elements of a sequence of messages carry the id
Copies(seq, id) == Cardinality({i \in DOMAIN seq : seq[i].id = id})

\* the positions of the message with this id in a sequence
Positions(seq, id) == {i \in DOMAIN seq : seq[i].id = id}

\* no saveMessage is between its start and its completion
Settled == \A t \in Tasks : req[t].pc \notin {"reading", "writing"}

\* C1: once all overlapping publishes have completed, the durable log holds the
\* message of every publish that completed successfully exactly once.
C1_EveryAppendKept ==
  Settled => \A t \in Tasks : req[t].pc = "done" => Copies(messagesFile, t) = 1

\* C2: when publish(m1) completed before publish(m2) started, both to the same
\* group, and both succeeded, a later query(group) returns both, m1 before m2,
\* and returns only messages of that group.
C2_SequentialOrder ==
  \A t1 \in Tasks, t2 \in Tasks :
    ( /\ req[t1].pc = "done" /\ req[t2].pc = "done"
      /\ t1 \in req[t2].after
      /\ req[t1].msg.group = req[t2].msg.group )
    => LET q == getMessages(req[t1].msg.group) IN
       /\ Copies(q, t1) = 1 /\ Copies(q, t2) = 1
       /\ \A i \in Positions(q, t1), j \in Positions(q, t2) : i < j
       /\ \A i \in DOMAIN q : q[i].group = req[t1].msg.group

\* C3: the step that completes the persistence of publish t gives exactly one copy
\* of its message to every connection that is then subscribed to its group and
\* open and none to any other connection, and no other step delivers anything.
C3_FanOutExact ==
  [][\A t \in Tasks, c \in Conns :
       IF req[t].pc = "writing" /\ req'[t].pc = "done"
       THEN Copies(inbox'[c], t) =
              (IF clients[c] = req[t].msg.group /\ readyState[c] = "OPEN"
               THEN 1 ELSE 0)
       ELSE Copies(inbox'[c], t) = Copies(inbox[c], t)]_vars

\* a publish to G reached the open subscriber of G and not the open subscriber of H
C3_Witness ==
  \E t \in Tasks, c \in Conns, d \in Conns :
    /\ req[t].pc = "done"
    /\ Copies(inbox[c], t) = 1
    /\ clients[d] \in Groups /\ clients[d] # req[t].msg.group
    /\ readyState[d] = "OPEN"
    /\ Copies(inbox[d], t) = 0

\* C9: a publish whose append failed reached no connection, left no entry in the
\* durable log, and its caller was told of the failure.
C9_FailedPublishSurfaced ==
  \A t \in Tasks :
    req[t].pc = "failed" =>
      /\ \A c \in Conns : Copies(inbox[c], t) = 0
      /\ Copies(messagesFile, t) = 0
      /\ req[t].status = "500"

\* =========================================================== OTP claims
\* The history of an email holds its latest issue (code h.otp, made at h.at, which
\* replaced a live entry with code h.prev) and the verify calls made since, in
\* the order the handlers ran, each with the code it supplied, the time of the
\* call and the result the handler gave.

\* the i-th verify call since the latest issue supplied another code than the issued one
Wrong(e, i) == hist[e].calls[i].otp # hist[e].otp

\* the i-th verify call was made after the issued code's expiry time
Late(e, i) == hist[e].calls[i].at > hist[e].at + 300000

\* every call before the i-th was wrong and in time, and they were fewer than three:
\* none of them can have used up, expired or locked the issued code
LiveBefore(e, i) ==
  /\ i - 1 < 3
  /\ \A j \in 1..(i - 1) : Wrong(e, j) /\ ~Late(e, j)

\* C4: after an issue, the first three verify calls, all wrong and in time, return
\* INVALID, INVALID, LOCKED; the third removes the entry; every call after them
\* returns NOT_FOUND.
C4_LockoutSequence ==
  \A e \in Emails :
    LET calls == hist[e].calls IN
    \A i \in DOMAIN calls :
      (\A j \in 1..i : j <= 3 => Wrong(e, j) /\ ~Late(e, j))
      => /\ i \in {1, 2} => calls[i].result = "INVALID"
         /\ i = 3 => calls[i].result = "LOCKED"
         /\ i >= 4 => calls[i].result = "NOT_FOUND"
         /\ Len(calls) >= 3 => otpStorage[e] = NoOtp

\* three wrong verifies in time and a fourth verify have been made
C4_Witness ==
  \E e \in Emails :
    /\ Len(hist[e].calls) = 4
    /\ \A j \in 1..3 : Wrong(e, j) /\ ~Late(e, j)

\* C5: once an issue has replaced a live entry that had another code, no verify
\* with the old code returns VERIFIED, and the replacing entry starts with
\* attempts 0 and expiresAt = time of the issue + 5 minutes.
C5_ReissueInvalidatesOld ==
  \A e \in Emails :
    LET h == hist[e] IN
    (h.prev # "" /\ h.prev # h.otp)
    => /\ \A i \in DOMAIN h.calls :
            h.calls[i].otp = h.prev
            => h.calls[i].result \in {"NOT_FOUND", "INVALID", "EXPIRED", "LOCKED"}
       /\ h.calls = <<>>
            => otpStorage[e] = [otp |-> h.otp, expiresAt |-> h.at + 300000,
                                attempts |-> 0]

\* a verify with the replaced code has been made after the second issue
C5_Witness ==
  \E e \in Emails :
    LET h == hist[e] IN
    /\ h.prev # "" /\ h.prev # h.otp
    /\ \E i \in DOMAIN h.calls : h.calls[i].otp = h.prev /\ ~Late(e, i)

\* C6: a verify with the issued code, in time, after fewer than three wrong
\* verifies and nothing else, returns VERIFIED; at most one verify per issuance
\* returns VERIFIED; it removes the entry and every later verify returns NOT_FOUND.
C6_SingleUse ==
  \A e \in Emails :
    LET calls == hist[e].calls IN
    /\ \A i \in DOMAIN calls :
         (~Wrong(e, i) /\ ~Late(e, i) /\ LiveBefore(e, i))
         => calls[i].result = "VERIFIED"
    /\ Cardinality({i \in DOMAIN calls : calls[i].result = "VERIFIED"}) <= 1
    /\ \A i \in DOMAIN calls :
         calls[i].result = "VERIFIED"
         => /\ otpStorage[e] = NoOtp
            /\ \A j \in DOMAIN calls : j > i => calls[j].result = "NOT_FOUND"

\* INVALID, then VERIFIED, then a further verify with the same code
C6_Witness ==
  \E e \in Emails :
    LET calls == hist[e].calls IN
    /\ Len(calls) = 3
    /\ calls[1].result = "INVALID"
    /\ calls[2].result = "VERIFIED"
    /\ calls[3].otp = hist[e].otp

\* C7: a verify made after the expiry time of a live entry returns EXPIRED whatever
\* code it supplies and removes the entry, so that later verifies return
\* NOT_FOUND; a verify made at or before the expiry time never returns EXPIRED.
C7_Expiry ==
  \A e \in Emails :
    LET calls == hist[e].calls IN
    \A i \in DOMAIN calls :
      /\ (Late(e, i) /\ LiveBefore(e, i)) => calls[i].result = "EXPIRED"
      /\ calls[i].result = "EXPIRED"
           => /\ otpStorage[e] = NoOtp
              /\ \A j \in DOMAIN calls : j > i => calls[j].result = "NOT_FOUND"
      /\ ~Late(e, i) => calls[i].result # "EXPIRED"

\* a late verify with the right code after a verify made exactly at the expiry
\* time, then one more verify
C7_Witness ==
  \E e \in Emails :
    LET calls == hist[e].calls IN
    /\ Len(calls) = 3
    /\ calls[1].at = hist[e].at + 300000
    /\ Late(e, 2) /\ ~Wrong(e, 2)
    /\ calls[3].result = "NOT_FOUND"

\* C8: in the state in which an issue or a verify answers its caller, no other
\* OTP handler being in progress, the durable entry of the identity equals the
\* in-memory entry (presence, code, expiresAt and attempts).
C8_WriteThrough ==
  (resp # NoResp /\ pending = <<>>) => otpFile[resp.email] = otpStorage[resp.email]

\* C10: a handler whose durable write failed does not answer with success.
C10_FailedWriteNotSuccess ==
  resp.writeFailed => resp.http # 200

\* the entry the latest send-otp of an identity stored
Issued(e) == [otp |-> hist[e].otp, expiresAt |-> hist[e].at + 300000, attempts |-> 0]

\* C11: once send-otp has been handled for two different identities and all
\* handlers have completed (no verify having been made), the in-memory store and
\* the durable store each hold both entries, each with its own code, its
\* expiresAt and attempts 0, whatever order the file writes completed in.
C11_BothIssuesKept ==
  \A a \in Emails, b \in Emails :
    (a # b /\ pending = <<>> /\ hist[a].otp # "" /\ hist[b].otp # "")
    => /\ otpStorage[a] = Issued(a) /\ otpStorage[b] = Issued(b)
       /\ otpFile[a] = Issued(a) /\ otpFile[b] = Issued(b)

C13_FanOutOrderIsHistoryOrder ==
  \A c \in Conns, t1 \in Tasks, t2 \in Tasks :
    ( /\ t1 # t2
      /\ req[t1].msg.group = req[t2].msg.group
      /\ clients[c] = req[t1].msg.group
      /\ Copies(inbox[c], t1) = 1 /\ Copies(inbox[c], t2) = 1 )
    => LET q == getMessages(req[t1].msg.group) IN
       /\ Copies(q, t1) = 1 /\ Copies(q, t2) = 1
       /\ \A i1 \in Positions(inbox[c], t1), i2 \in Positions(inbox[c], t2),
             j1 \in Positions(q, t1), j2 \in Positions(q, t2) :
             (i1 < i2) = (j1 < j2)

\* C14: once the 'close' event of a connection has been handled, the connection
\* has no entry in the registry in that state and in every later one, nothing is
\* sent to it any more (also not by a publish that was inside saveMessage when
\* the close was handled), and unregistering it again leaves the registry as it is.
C14_CloseRemoves ==
  [][\A c \in Conns :
       readyState'[c] = "CLOSED"
       => /\ clients'[c] = NoEntry
          /\ readyState[c] = "CLOSED" => inbox'[c] = inbox[c]
          /\ Unregister(clients', c) = clients']_vars

\* a publish to the group of a connection was inside saveMessage when the
\* connection closed; its fan-out reached another subscriber and not the closed one
C14_Witness ==
  \E t \in Tasks, c \in Conns, d \in Conns :
    /\ readyState[c] = "CLOSED"
    /\ t \in closedIn[c]
    /\ req[t].pc = "done"
    /\ Copies(inbox[c], t) = 0
    /\ Copies(inbox[d], t) = 1

\* C15: a publish whose group is missing or empty appends nothing to the durable
\* log, is fanned out to no connection, and ends with a validation error
\* reported to its caller.
C15_InvalidGroupRejected ==
  \A t \in Tasks :
    req[t].msg.group \in {"", Undefined}
    => /\ Copies(messagesFile, t) = 0
       /\ \A c \in Conns : Copies(inbox[c], t) = 0
       /\ req[t].pc \in {"done", "failed"} => req[t].status = "400"

\* a finalized message: an id the server assigned and status 'delivered'
Finalized(m) == m.id \in Tasks /\ m.status = "delivered"

\* C16: every message in the durable log, every message sent to a connection
\* and every message a publish returned to its caller carries a server-assigned
\* id and the status 'delivered', on the realtime path and on the REST path.
C16_FinalizedDelivered ==
  /\ \A i \in DOMAIN messagesFile : Finalized(messagesFile[i])
  /\ \A c \in Conns : \A i \in DOMAIN inbox[c] : Finalized(inbox[c][i])
  /\ \A t \in Tasks : req[t].status = "201" => Finalized(req[t].msg)

\* the name of a request is absent, not a string, empty or only blanks
Rejectable(name) ==
  \/ name.type # "string"
  \/ \A i \in DOMAIN name.chars : name.chars[i] = " "

\* C17: a create whose name is absent, not a string, empty or only blanks is
\* answered 400 and puts no group in the durable catalog; a create with any other
\* name, once it has answered 201, has returned a group whose name is the trimmed
\* input, and list() returns that group exactly once (no group stored by a
\* completed create is lost).
C17_GroupCreation ==
  \A t \in DOMAIN greq :
    /\ Rejectable(greq[t].name)
         => /\ greq[t].status = "400"
            /\ Copies(ListGroups, t) = 0
    /\ ~Rejectable(greq[t].name)
         => /\ greq[t].status # "400"
            /\ greq[t].status = "201"
                 => /\ greq[t].newGroup.id = t
                    /\ greq[t].newGroup.name # <<>>
                    /\ Head(greq[t].newGroup.name) # " "
                    /\ greq[t].newGroup.name[Len(greq[t].newGroup.name)] # " "
                    /\ \E i \in DOMAIN greq[t].name.chars, j \in DOMAIN greq[t].name.chars :
                         greq[t].newGroup.name = SubSeq(greq[t].name.chars, i, j)
                    /\ Copies(ListGroups, t) = 1
                    /\ \A i \in Positions(ListGroups, t) :
                         ListGroups[i] = greq[t].newGroup

\* C18: the step that handles a frame that cannot be parsed or has an
\* unrecognised type leaves the registry, the durable message log and every
\* connection's readyState as they were; and a connection that has sent such a
\* frame, while it is subscribed and open, still gets one copy of every publish
\* to its group that completes.
C18_BadFrameIsolated ==
  [][/\ \A c \in Conns :
          bad'[c] # bad[c]
          => /\ clients' = clients
             /\ messagesFile' = messagesFile
             /\ readyState' = readyState
     /\ \A c \in Conns, t \in Tasks :
          ( /\ bad[c] # NoBad
            /\ req[t].pc = "writing" /\ req'[t].pc = "done"
            /\ clients[c] = req[t].msg.group
            /\ readyState[c] = "OPEN" )
          => Copies(inbox'[c], t) = 1]_vars

\* a connection subscribed to a group sent a bad frame and then received a
\* publish to that group that started after the frame
C18_Witness ==
  \E c \in Conns, t \in Tasks :
    /\ bad[c] # NoBad
    /\ bad[c].group \in Groups
    /\ t > bad[c].at
    /\ req[t].msg.group = bad[c].group
    /\ req[t].pc = "done"
    /\ Copies(inbox[c], t) = 1

\* C19: the registry holds for every connection the group of its latest
\* subscribe and nothing else, so that after subscribing to G and then to H the
\* connection gets one copy of a publish to H and none of a publish to G when
\* their fan-out runs; and subscribing again with the same group leaves the
\* registry as the first subscribe left it.
C19_ResubscribeOverwrites ==
  [][/\ \A c \in Conns : clients'[c] = lastSub'[c]
     /\ \A c \in Conns, t \in Tasks :
          (req[t].pc = "writing" /\ req'[t].pc = "done")
          => Copies(inbox'[c], t) =
               (IF lastSub[c] = req[t].msg.group /\ readyState[c] = "OPEN"
                THEN 1 ELSE 0)
     /\ \A c \in Conns, g \in Groups :
          Register(Register(clients, c, g), c, g) = Register(clients, c, g)]_vars

\* a connection received a publish to one group, then a publish to another
\* group, and then none of a later publish to the first group
C19_Witness ==
  \E c \in Conns, t1 \in Tasks, t2 \in Tasks, t3 \in Tasks :
    /\ req[t1].msg.group # req[t2].msg.group
    /\ Copies(inbox[c], t1) = 1 /\ Copies(inbox[c], t2) = 1
    /\ \A i \in Positions(inbox[c], t1), j \in Positions(inbox[c], t2) : i < j
    /\ req[t3].msg.group = req[t1].msg.group
    /\ t2 \in req[t3].after
    /\ req[t3].pc = "done"
    /\ lastSub[c] = req[t2].msg.group
    /\ Copies(inbox[c], t3) = 0

\* the calls before the i-th of the latest issuance that supplied a wrong code
WrongBefore(e, i) == {j \in 1..(i - 1) : Wrong(e, j)}

\* C20: for one issuance, over all interleavings and restarts, at most 2 verify
\* calls return INVALID, and no verify returns VERIFIED once 3 wrong verifies
\* have been made against the issuance.
C20_AttemptLimit ==
  \A e \in Emails :
    LET calls == hist[e].calls IN
    /\ Cardinality({i \in DOMAIN calls : calls[i].result = "INVALID"}) <= 2
    /\ \A i \in DOMAIN calls :
         calls[i].result = "VERIFIED" => Cardinality(WrongBefore(e, i)) < 3

\* C21: in the state in which send-otp answers 500 because sendMail failed, no
\* verify having been made since the handler stored its entry, the entry of the
\* identity in memory and in the durable store is the newly generated one, with
\* attempts 0 (so the new code, and not a replaced one, is the code a verify
\* would accept, in this process and after a restart).
C21_IssueCommitted ==
  (resp.op = "issue" /\ resp.http = 500 /\ hist[resp.email].calls = <<>>)
  => /\ otpStorage[resp.email] = Issued(resp.email)
     /\ otpFile[resp.email] = Issued(resp.email)

====
